---- MODULE Spec2Model ----
(***************************************************************************)
(* A model of src/app.py: the search run of the dashboard's main().        *)
(*                                                                         *)
(* One run is modelled from the press of "Search Videos" to the rendering  *)
(* of the result cards.  The YouTube Data API is the environment: every    *)
(* .execute() is one step whose response is drawn from a small set, or     *)
(* which raises.  Python dicts are records whose DOMAIN may lack a key,    *)
(* so dict.get(key, default) is modelled as it behaves.  Python floats     *)
(* are modelled as exact rationals <<numerator, denominator>>.             *)
(***************************************************************************)
EXTENDS Integers, Sequences, FiniteSets, TLC

VARIABLES
    keyword,                 \* st.text_input: a sequence of characters
    video_type,              \* st.selectbox "VIDEO TYPE"
    sort_option,             \* st.selectbox "SORT BY"
    min_outlier_multiplier,  \* st.slider, a rational
    selected_channel_names,  \* the checkbox / multiselect outcome
    show_comments,           \* st.checkbox "Show Top Comments"
    pc,                      \* the position of main() in its run
    selected_channels,       \* line 330
    channel_avg_views,       \* line 336: channel id -> rational
    all_video_ids,           \* line 352
    details_responses,       \* line 371
    detail_items,            \* line 382
    results,                 \* line 386
    locals,                  \* the local variables of the loop of line 388
    idx,                     \* the index of the running for loop
    requests,                \* every .execute() issued, in order
    messages,                \* every st.error / st.sidebar.error shown
    search_info,             \* the st.empty() placeholder of line 322
    rendered                 \* the video ids of the cards drawn, in order

vars == << keyword, video_type, sort_option, min_outlier_multiplier,
           selected_channel_names, show_comments, pc, selected_channels,
           channel_avg_views, all_video_ids, details_responses, detail_items,
           results, locals, idx, requests, messages, search_info, rendered >>

inputs == << keyword, video_type, sort_option, min_outlier_multiplier,
             selected_channel_names, show_comments >>

----------------------------------------------------------------------------
(* Program constants.                                                      *)

Cap == 10

ChunkSize == 50

MaxResults == 50

ShortThreshold == 180

MaxComments == 5

(* Bounds of the model.                                                    *)

\* how many leading positions of the slider (step 2.0) the inputs explore
MaxSliderSteps == 1

\* how many comment threads a commentThreads response may carry
MaxThreads == 6

----------------------------------------------------------------------------
(* Python numbers: int / int is a float, modelled as a reduced rational.   *)

Abs(n) == IF n < 0 THEN -n ELSE n

Min(a, b) == IF a <= b THEN a ELSE b

RECURSIVE GCD(_, _)
GCD(a, b) == IF b = 0 THEN a ELSE GCD(b, a % b)

\* the quotient n / d in lowest terms; a zero denominator marks a quotient
\* Python refuses (ZeroDivisionError)
Rat(n, d) ==
    LET g == GCD(Abs(n), Abs(d))
        s == IF d < 0 THEN -1 ELSE 1
    IN  IF d = 0 THEN << n, 0 >> ELSE << (s * n) \div g, (s * d) \div g >>

FromInt(n) == << n, 1 >>

RAdd(a, b) == Rat(a[1] * b[2] + b[1] * a[2], a[2] * b[2])

RMul(a, b) == Rat(a[1] * b[1], a[2] * b[2])

RDiv(a, b) == Rat(a[1] * b[2], a[2] * b[1])

RLe(a, b) == a[1] * b[2] <= b[1] * a[2]

RLt(a, b) == a[1] * b[2] < b[1] * a[2]

\* dict.get(key, default)
Get(d, k, default) == IF k \in DOMAIN d THEN d[k] ELSE default

----------------------------------------------------------------------------
(* Text: a string is a sequence of characters; str.lower() maps each       *)
(* upper-case character to its lower-case one; `a in b` is substring.      *)

LowerChar(c) ==
    CASE c = "K" -> "k"
      [] c = "X" -> "x"
      [] OTHER   -> c

Lower(str) == [i \in 1..Len(str) |-> LowerChar(str[i])]

IsSubstr(a, b) ==
    \E i \in 0..(Len(b) - Len(a)) : SubSeq(b, i + 1, i + Len(a)) = a

(* ISO-8601 durations.  A duration string is modelled by its prefix and    *)
(* its (number, designator) parts: "PT2M59S" is                            *)
(* [prefix |-> "PT", parts |-> <<[n |-> 2, unit |-> "M"],                  *)
(*                               [n |-> 59, unit |-> "S"]>>].              *)
(* isodate.parse_duration raises on a string whose prefix is not "PT",     *)
(* that has no part, or whose designators are not H, M, S in that order.   *)

UnitRank(u) ==
    CASE u = "H" -> 1
      [] u = "M" -> 2
      [] u = "S" -> 3
      [] OTHER   -> 0

UnitSeconds(u) ==
    CASE u = "H" -> 3600
      [] u = "M" -> 60
      [] OTHER   -> 1

IsoWellFormed(d) ==
    /\ d.prefix = "PT"
    /\ Len(d.parts) > 0
    /\ \A i \in 1..Len(d.parts) : UnitRank(d.parts[i].unit) > 0
    /\ \A i \in 1..(Len(d.parts) - 1) :
           UnitRank(d.parts[i].unit) < UnitRank(d.parts[i + 1].unit)

RECURSIVE IsoSeconds(_)
IsoSeconds(parts) ==
    IF parts = <<>> THEN 0
    ELSE Head(parts).n * UnitSeconds(Head(parts).unit) + IsoSeconds(Tail(parts))

\* a malformed string taken for a video at the threshold
parse_duration_Malformed180(duration_str) ==
    IF IsoWellFormed(duration_str) THEN IsoSeconds(duration_str.parts) ELSE 180

\* lines 128-134: the except branch returns 0
parse_duration(duration_str) ==
    IF IsoWellFormed(duration_str) THEN IsoSeconds(duration_str.parts) ELSE 0

Iso(parts) == [prefix |-> "PT", parts |-> parts]

Part(n, u) == [n |-> n, unit |-> u]

PT0S == Iso(<< Part(0, "S") >>)

----------------------------------------------------------------------------
(* The environment: channels.json and what the YouTube Data API holds.     *)
(* Video ids are numbers; a channel's uploads are a block of MaxResults    *)
(* consecutive ids, and the fields of a video vary with its place in the   *)
(* block so that the block holds every case the run distinguishes.         *)

\* load_channels("channels.json"), lines 167-180
channels_list ==
    << [id |-> "UC_A", name |-> "A"], [id |-> "UC_B", name |-> "B"] >>

channel_names == { channels_list[i].name : i \in 1..Len(channels_list) }

ChannelIndex(channel_id) ==
    CHOOSE i \in 1..Len(channels_list) : channels_list[i].id = channel_id

\* channels().list(part="statistics"): the responses a channel may give
StatsResponses(channel_id) ==
    IF ChannelIndex(channel_id) = 1
    THEN { [items |-> << [statistics |-> [viewCount |-> 1000, videoCount |-> 10]] >>],
           [nothing |-> TRUE] }
    ELSE { [items |-> << [statistics |-> [viewCount |-> 250, videoCount |-> 3]] >>],
           [items |-> << [statistics |-> [viewCount |-> 1000, videoCount |-> 0]] >>],
           [items |-> << >>] }

Place(video_id) == (video_id - 1) % MaxResults

OwnerIndex(video_id) == ((video_id - 1) \div MaxResults) + 1

VideoStatistics(k) ==
    LET views ==
            CASE k % 4 = 0 -> [viewCount |-> 1000]
              [] k % 4 = 1 -> [viewCount |-> 0]
              [] k % 4 = 2 -> [viewCount |-> 190]
              [] OTHER     -> [viewCount |-> 40]
        likes ==
            CASE (k \div 4) % 3 = 0 -> [likeCount |-> 50]
              [] (k \div 4) % 3 = 1 -> [nolikes |-> TRUE]
              [] OTHER              -> [likeCount |-> 10]
        comments ==
            IF (k \div 12) % 2 = 0 THEN [commentCount |-> 10] ELSE [nocomments |-> TRUE]
        all == views @@ likes @@ comments
    IN  [f \in DOMAIN all \ {"nolikes", "nocomments"} |-> all[f]]

VideoContentDetails(k) ==
    CASE k % 5 = 0 -> [duration |-> Iso(<< Part(2, "M"), Part(59, "S") >>)]
      [] k % 5 = 1 -> [duration |-> Iso(<< Part(3, "M") >>)]
      [] k % 5 = 2 -> [duration |-> [prefix |-> "", parts |-> << Part(3, "M") >>]]
      [] k % 5 = 3 -> [dimension |-> "2d"]
      [] OTHER     -> [duration |-> Iso(<< Part(1, "H"), Part(0, "M"), Part(1, "S") >>)]

VideoSnippet(video_id, k) ==
    LET text ==
            CASE k % 7 = 1 -> [title |-> << "x" >>, description |-> << "x", "K", "X" >>]
              [] k % 7 = 2 -> [title |-> << "x" >>, tags |-> << << "x" >>, << "k", "x" >> >>]
              [] k % 7 = 3 -> [title |-> << "x", "k" >>, description |-> << "k" >>]
              [] k % 7 = 4 -> [title |-> << "x", "x" >>, description |-> << "x" >>,
                               tags |-> << << "x" >>, << "k" >> >>]
              [] k % 7 = 5 -> [description |-> << "k", "x" >>]
              [] OTHER     -> [title |-> << "K", "x" >>]
        other == (OwnerIndex(video_id) % Len(channels_list)) + 1
        channel ==
            CASE k % 11 = 10 -> [publishedAt |-> "2024"]
              [] k % 11 = 9  -> [channelId |-> channels_list[other].id]
              [] OTHER       -> [channelId |-> channels_list[OwnerIndex(video_id)].id]
    IN  text @@ channel

\* one item of a videos().list response
Video(video_id) ==
    [id            |-> video_id,
     snippet       |-> VideoSnippet(video_id, Place(video_id)),
     statistics    |-> VideoStatistics(Place(video_id)),
     contentDetails |-> VideoContentDetails(Place(video_id))]

\* a video deleted between the search and the detail lookup
Deleted(video_id) == Place(video_id) = 13

\* search().list(channelId=..., maxResults=50): the number of items a
\* response may carry, and the item ids (item["id"]["videoId"]) it carries
SearchCounts == { 0, 1, MaxResults - 1, MaxResults }

SearchItems(channel_id, count) ==
    [j \in 1..count |-> (ChannelIndex(channel_id) - 1) * MaxResults + j]

\* commentThreads().list: comments are disabled on every third video (the
\* request raises); the others carry some threads, each with a like count
CommentsDisabled(video_id) == video_id % 3 = 0

CommentThreads(video_id) ==
    [j \in 1..(video_id % (MaxThreads + 1)) |->
        [likeCount |-> (j * 7 + video_id) % 10]]

----------------------------------------------------------------------------
(* The computations of main().                                             *)

\* line 347
AverageViews(stats) ==
    LET total_views  == Get(stats, "viewCount", 0)
        total_videos == Get(stats, "videoCount", 0)
    IN  IF total_videos > 0 THEN Rat(total_views, total_videos) ELSE FromInt(0)

\* lines 343-350
ChannelAverage(channel_response) ==
    IF Get(channel_response, "items", << >>) # << >>
    THEN AverageViews(channel_response.items[1].statistics)
    ELSE FromInt(0)

\* lines 372-374: range(0, len(lst), size), one slice per start
RECURSIVE ChunksFrom(_, _, _)
ChunksFrom(lst, size, start) ==
    IF start >= Len(lst) THEN << >>
    ELSE << SubSeq(lst, start + 1, Min(start + size, Len(lst))) >>
         \o ChunksFrom(lst, size, start + size)

\* slices that run one element too far
chunk_list_Overlap(lst, size) ==
    [j \in 1..((Len(lst) + size - 1) \div size) |->
        SubSeq(lst, (j - 1) * size + 1, Min(j * size + 1, Len(lst)))]

chunk_list(lst, size) == ChunksFrom(lst, size, 0)

\* lines 382-384
RECURSIVE ExtendAll(_)
ExtendAll(responses) ==
    IF responses = << >> THEN << >>
    ELSE Get(Head(responses), "items", << >>) \o ExtendAll(Tail(responses))

\* lines 403-405
KeywordMatches(keyword_lower, snippet) ==
    LET title       == Get(snippet, "title", << >>)
        description == Get(snippet, "description", << >>)
        tags        == Get(snippet, "tags", << >>)
    IN  \/ IsSubstr(keyword_lower, Lower(title))
        \/ IsSubstr(keyword_lower, Lower(description))
        \/ \E t \in 1..Len(tags) : IsSubstr(keyword_lower, Lower(tags[t]))

\* lines 408-410
ViewCount(statistics) == Get(statistics, "viewCount", 0)

LikeCount(statistics) ==
    IF "likeCount" \in DOMAIN statistics THEN Get(statistics, "likeCount", 0) ELSE 0

CommentCount(statistics) ==
    IF "commentCount" \in DOMAIN statistics THEN Get(statistics, "commentCount", 0) ELSE 0

\* the ratio left as a fraction, not made a percentage
EngagementRate_Fraction(view_count, like_count, comment_count) ==
    IF view_count > 0
    THEN RDiv(FromInt(like_count + comment_count), FromInt(view_count))
    ELSE FromInt(0)

\* lines 413-416
EngagementRate(view_count, like_count, comment_count) ==
    IF view_count > 0
    THEN RMul(RDiv(FromInt(like_count + comment_count), FromInt(view_count)), FromInt(100))
    ELSE FromInt(0)

\* lines 420-423
OutlierMultiplier(view_count, engagement_rate, channel_id, avg_views) ==
    IF channel_id \in DOMAIN avg_views /\ RLt(FromInt(0), avg_views[channel_id])
    THEN RDiv(RMul(FromInt(view_count),
                   RAdd(FromInt(1), RDiv(engagement_rate, FromInt(100)))),
              avg_views[channel_id])
    ELSE FromInt(0)

\* a cut that lets the boundary through
BelowOutlierCut_Strict(multiplier, minimum) == RLt(multiplier, minimum)

\* line 425: the `continue` is taken
BelowOutlierCut(multiplier, minimum) == RLe(multiplier, minimum)

\* the cutoff with the boundary on the wrong side
DurationExcluded_BoundaryKept(type, duration_seconds) ==
    \/ type = "Short (< 3 mins)" /\ duration_seconds > ShortThreshold
    \/ type = "Long (>= 3 mins)" /\ duration_seconds <= ShortThreshold

\* lines 430-433: one of the two `continue`s is taken
DurationExcluded(type, duration_seconds) ==
    \/ type = "Short (< 3 mins)" /\ duration_seconds >= ShortThreshold
    \/ type = "Long (>= 3 mins)" /\ duration_seconds < ShortThreshold

\* lines 389-448, the body of the loop over detail_items: the record the
\* item appends to results, as a sequence of no or one record
ProcessItem(item, kw, type, minimum, avg_views) ==
    LET snippet         == Get(item, "snippet", << >>)
        statistics      == Get(item, "statistics", << >>)
        contentDetails  == Get(item, "contentDetails", << >>)
        channel_id      == Get(snippet, "channelId", "")
        view_count      == ViewCount(statistics)
        like_count      == LikeCount(statistics)
        comment_count   == CommentCount(statistics)
        engagement_rate == EngagementRate(view_count, like_count, comment_count)
        multiplier      == OutlierMultiplier(view_count, engagement_rate,
                                             channel_id, avg_views)
        duration_seconds == parse_duration(Get(contentDetails, "duration", PT0S))
    IN  IF ~KeywordMatches(Lower(kw), snippet) THEN << >>
        ELSE IF BelowOutlierCut(multiplier, minimum) THEN << >>
        ELSE IF DurationExcluded(type, duration_seconds) THEN << >>
        ELSE << [video_id           |-> item.id,
                 title              |-> Get(snippet, "title", << >>),
                 channel_id         |-> channel_id,
                 view_count         |-> view_count,
                 duration           |-> duration_seconds,
                 outlier_multiplier |-> multiplier,
                 engagement_rate    |-> engagement_rate] >>

\* lines 389-429: the local variables one iteration assigns before it
\* continues or appends
ItemLocals(item, kw, type, minimum, avg_views) ==
    LET snippet         == Get(item, "snippet", << >>)
        statistics      == Get(item, "statistics", << >>)
        contentDetails  == Get(item, "contentDetails", << >>)
        channel_id      == Get(snippet, "channelId", "")
        view_count      == ViewCount(statistics)
        like_count      == LikeCount(statistics)
        comment_count   == CommentCount(statistics)
        engagement_rate == EngagementRate(view_count, like_count, comment_count)
        multiplier      == OutlierMultiplier(view_count, engagement_rate,
                                             channel_id, avg_views)
        upto400 == [video_id |-> item.id, channel_id |-> channel_id]
        upto423 == upto400 @@
                   [view_count      |-> view_count,
                    like_count      |-> like_count,
                    comment_count   |-> comment_count,
                    engagement_rate |-> engagement_rate,
                    multiplier      |-> multiplier]
        upto429 == upto423 @@
                   [duration_seconds |->
                        parse_duration(Get(contentDetails, "duration", PT0S))]
    IN  IF ~KeywordMatches(Lower(kw), snippet) THEN upto400
        ELSE IF BelowOutlierCut(multiplier, minimum) THEN upto423
        ELSE upto429

\* the key of lines 451 and 453, as a rational
SortKey(option, video) ==
    IF option = "View Count" THEN FromInt(video.view_count)
    ELSE video.outlier_multiplier

\* sorted(..., reverse=True) is stable: a record goes behind the records
\* whose key is greater than or equal to its own
RECURSIVE InsertDescending(_, _, _)
InsertDescending(sorted, video, option) ==
    IF sorted = << >> THEN << video >>
    ELSE IF RLt(SortKey(option, Head(sorted)), SortKey(option, video))
         THEN << video >> \o sorted
         ELSE << Head(sorted) >> \o InsertDescending(Tail(sorted), video, option)

RECURSIVE SortedDescending(_, _)
SortedDescending(videos, option) ==
    IF videos = << >> THEN << >>
    ELSE InsertDescending(SortedDescending(SubSeq(videos, 1, Len(videos) - 1), option),
                          videos[Len(videos)], option)

\* a slice that keeps the whole list
Truncate_KeepAll(videos) == videos

\* line 455: results[:10]
Truncate(videos) == SubSeq(videos, 1, Min(Cap, Len(videos)))

\* lines 221-222: sorted by like count, greatest first, and cut to
\* max_comments
RECURSIVE InsertByLikes(_, _)
InsertByLikes(sorted, comment) ==
    IF sorted = << >> THEN << comment >>
    ELSE IF Head(sorted).like_count < comment.like_count
         THEN << comment >> \o sorted
         ELSE << Head(sorted) >> \o InsertByLikes(Tail(sorted), comment)

RECURSIVE SortedByLikes(_)
SortedByLikes(comments) ==
    IF comments = << >> THEN << >>
    ELSE InsertByLikes(SortedByLikes(SubSeq(comments, 1, Len(comments) - 1)),
                       comments[Len(comments)])

\* lines 197-222 of fetch_top_comments, on a response that arrived
TopComments(comment_response) ==
    LET items    == Get(comment_response, "items", << >>)
        comments == [j \in 1..Len(items) |->
                        [like_count |-> Get(items[j], "likeCount", 0)]]
        sorted   == SortedByLikes(comments)
    IN  SubSeq(sorted, 1, Min(MaxComments, Len(sorted)))

----------------------------------------------------------------------------
(* The run.                                                                *)

NoInfo == [kind |-> "empty", text |-> ""]

SliderPositions == { FromInt(2 * k) : k \in 0..MaxSliderSteps }

Init ==
    /\ keyword \in { << >>, << "K", "x" >> }
    /\ video_type \in { "All", "Short (< 3 mins)", "Long (>= 3 mins)" }
    /\ sort_option \in { "Outlier Score", "View Count" }
    /\ min_outlier_multiplier \in SliderPositions
    /\ selected_channel_names \in SUBSET channel_names
    /\ show_comments \in BOOLEAN
    /\ pc = "start"
    /\ selected_channels = << >>
    /\ channel_avg_views = << >>
    /\ all_video_ids = << >>
    /\ details_responses = << >>
    /\ detail_items = << >>
    /\ results = << >>
    /\ locals = << >>
    /\ idx = 0
    /\ requests = << >>
    /\ messages = << >>
    /\ search_info = NoInfo
    /\ rendered = << >>

\* a failure that is shown and stepped over
Raised_StepOver ==
    /\ pc' = pc
    /\ messages' = Append(messages, "An error occurred")

\* lines 497-498: the except branch of main(), taken from any step of the try
Raised ==
    /\ pc' = "done"
    /\ messages' = Append(messages, "An error occurred")

\* lines 313-333: the button is pressed; the inputs are validated and the
\* API client is built (st.secrets or build may raise)
Submit ==
    /\ pc = "start"
    /\ UNCHANGED << inputs, channel_avg_views, all_video_ids, details_responses,
                    detail_items, results, locals, idx, requests, rendered >>
    /\ IF keyword = << >>
       THEN /\ messages' = Append(messages, "Please enter a search keyword.")
            /\ pc' = "done"
            /\ UNCHANGED << search_info, selected_channels >>
       ELSE IF selected_channel_names = {}
       THEN /\ messages' = Append(messages, "Please select at least one channel.")
            /\ pc' = "done"
            /\ UNCHANGED << search_info, selected_channels >>
       ELSE \E built \in BOOLEAN :
               LET chosen == SelectSeq(channels_list,
                                       LAMBDA ch : ch.name \in selected_channel_names)
                   searching == [kind |-> "info", text |-> "Searching for videos"]
               IN  IF ~built
                   THEN /\ search_info' = searching
                        /\ Raised
                        /\ UNCHANGED selected_channels
                   ELSE /\ selected_channels' = chosen
                        /\ UNCHANGED messages
                        /\ IF chosen = << >>
                           THEN /\ search_info' = [kind |-> "error",
                                                   text |-> "No channels selected."]
                                /\ pc' = "done"
                           ELSE /\ search_info' = searching
                                /\ pc' = "stats"

\* where the run goes once the loop over selected_channels of line 337 ends
AfterStats(i) == IF i < Len(selected_channels) THEN "stats" ELSE "search"

\* lines 337-350, one iteration: channels().list(part="statistics")
FetchChannelStats ==
    /\ pc = "stats"
    /\ LET channel_id == selected_channels[idx + 1].id
       IN  \/ \E channel_response \in StatsResponses(channel_id) :
                 /\ requests' = Append(requests,
                        [api |-> "channels", id |-> channel_id, ok |-> TRUE])
                 /\ channel_avg_views' =
                        (channel_id :> ChannelAverage(channel_response))
                            @@ channel_avg_views
                 /\ pc' = AfterStats(idx + 1)
                 /\ idx' = IF idx + 1 < Len(selected_channels) THEN idx + 1 ELSE 0
                 /\ UNCHANGED messages
           \/ /\ requests' = Append(requests,
                     [api |-> "channels", id |-> channel_id, ok |-> FALSE])
              /\ Raised
              /\ UNCHANGED << channel_avg_views, idx >>
    /\ UNCHANGED << inputs, selected_channels, all_video_ids, details_responses,
                    detail_items, results, locals, search_info, rendered >>

\* lines 354-364, one iteration: search().list(q=keyword, channelId=...)
SearchChannel ==
    /\ pc = "search"
    /\ LET channel_id == selected_channels[idx + 1].id
       IN  \/ \E count \in SearchCounts :
                 /\ requests' = Append(requests,
                        [api |-> "search", channelId |-> channel_id, ok |-> TRUE])
                 /\ all_video_ids' = all_video_ids \o SearchItems(channel_id, count)
                 /\ pc' = IF idx + 1 < Len(selected_channels) THEN "search" ELSE "ids"
                 /\ idx' = IF idx + 1 < Len(selected_channels) THEN idx + 1 ELSE 0
                 /\ UNCHANGED messages
           \/ /\ requests' = Append(requests,
                     [api |-> "search", channelId |-> channel_id, ok |-> FALSE])
              /\ Raised
              /\ UNCHANGED << all_video_ids, idx >>
    /\ UNCHANGED << inputs, selected_channels, channel_avg_views, details_responses,
                    detail_items, results, locals, search_info, rendered >>

\* a check that never finds the list empty
NoVideoIds_Never(ids) == FALSE

\* line 366: `not all_video_ids`
NoVideoIds(ids) == ids = << >>

\* lines 366-368
CheckVideoIds ==
    /\ pc = "ids"
    /\ IF NoVideoIds(all_video_ids)
       THEN /\ search_info' = [kind |-> "error",
                               text |-> "No videos found across the selected channels."]
            /\ pc' = "done"
       ELSE /\ pc' = IF chunk_list(all_video_ids, ChunkSize) # << >>
                     THEN "details" ELSE "gather"
            /\ UNCHANGED search_info
    /\ UNCHANGED << inputs, selected_channels, channel_avg_views, all_video_ids,
                    details_responses, detail_items, results, locals, idx, requests,
                    messages, rendered >>

\* videos().list(id=",".join(chunk)): the items of the ids that still
\* exist, in the order asked
DetailsResponse(chunk) ==
    LET existing == SelectSeq(chunk, LAMBDA v : ~Deleted(v))
    IN  [items |-> [j \in 1..Len(existing) |-> Video(existing[j])]]

\* lines 375-380, one iteration: videos().list for the next chunk
FetchDetails ==
    /\ pc = "details"
    /\ LET chunks == chunk_list(all_video_ids, ChunkSize)
           chunk  == chunks[idx + 1]
       IN  \/ /\ requests' = Append(requests,
                     [api |-> "videos", id |-> chunk, ok |-> TRUE])
              /\ details_responses' = Append(details_responses, DetailsResponse(chunk))
              /\ pc' = IF idx + 1 < Len(chunks) THEN "details" ELSE "gather"
              /\ idx' = IF idx + 1 < Len(chunks) THEN idx + 1 ELSE 0
              /\ UNCHANGED messages
           \/ /\ requests' = Append(requests,
                     [api |-> "videos", id |-> chunk, ok |-> FALSE])
              /\ Raised
              /\ UNCHANGED << details_responses, idx >>
    /\ UNCHANGED << inputs, selected_channels, channel_avg_views, all_video_ids,
                    detail_items, results, locals, search_info, rendered >>

\* a loop that breaks once the accumulator holds the cap
MoreItems_StopAtCap(processed, items, accumulated) ==
    processed < Len(items) /\ Len(accumulated) < Cap

\* line 388: the for loop has no break; it goes on while items are left
MoreItems(processed, items, accumulated) == processed < Len(items)

\* lines 382-387: the items of every response, in order
GatherDetails ==
    /\ pc = "gather"
    /\ detail_items' = ExtendAll(details_responses)
    /\ results' = << >>
    /\ pc' = IF MoreItems(0, detail_items', results') THEN "process" ELSE "sort"
    /\ UNCHANGED << inputs, selected_channels, channel_avg_views, all_video_ids,
                    details_responses, locals, idx, requests, messages,
                    search_info, rendered >>

\* lines 388-448, one iteration of the loop over detail_items
ProcessNextItem ==
    /\ pc = "process"
    /\ LET item == detail_items[idx + 1]
       IN  /\ locals' = ItemLocals(item, keyword, video_type,
                                   min_outlier_multiplier, channel_avg_views)
                        @@ locals
           /\ results' = results \o ProcessItem(item, keyword, video_type,
                                                min_outlier_multiplier,
                                                channel_avg_views)
    /\ pc' = IF MoreItems(idx + 1, detail_items, results') THEN "process" ELSE "sort"
    /\ idx' = IF MoreItems(idx + 1, detail_items, results') THEN idx + 1 ELSE 0
    /\ UNCHANGED << inputs, selected_channels, channel_avg_views, all_video_ids,
                    details_responses, detail_items, requests, messages,
                    search_info, rendered >>

\* the list cut to ten before it is sorted
SortAndTruncate_CutFirst ==
    /\ pc = "sort"
    /\ results' = SortedDescending(Truncate(results), sort_option)
    /\ pc' = IF show_comments /\ results' # << >> THEN "comments" ELSE "render"
    /\ UNCHANGED << inputs, selected_channels, channel_avg_views, all_video_ids,
                    details_responses, detail_items, locals, idx, requests, messages,
                    search_info, rendered >>

\* lines 450-455: sort by the chosen key, greatest first, and keep the first ten
SortAndTruncate ==
    /\ pc = "sort"
    /\ results' = Truncate(SortedDescending(results, sort_option))
    /\ pc' = IF show_comments /\ results' # << >> THEN "comments" ELSE "render"
    /\ UNCHANGED << inputs, selected_channels, channel_avg_views, all_video_ids,
                    details_responses, detail_items, locals, idx, requests, messages,
                    search_info, rendered >>

\* lines 465-470, one iteration: fetch_top_comments (lines 182-232), whose
\* own except branch shows the error and returns no comment
FetchComments ==
    /\ pc = "comments"
    /\ LET video == results[idx + 1]
           failed == CommentsDisabled(video.video_id)
           top_comments ==
               IF failed THEN << >>
               ELSE TopComments([items |-> CommentThreads(video.video_id)])
       IN  /\ requests' = Append(requests,
                  [api |-> "commentThreads", videoId |-> video.video_id,
                   ok |-> ~failed])
           /\ messages' = IF failed
                          THEN Append(messages, "Error fetching comments")
                          ELSE messages
           /\ results' = [results EXCEPT ![idx + 1] =
                             video @@ [top_comments |-> top_comments]]
           /\ search_info' = [kind |-> "info", text |-> "Fetching comments"]
    /\ pc' = IF idx + 1 < Len(results) THEN "comments" ELSE "render"
    /\ idx' = IF idx + 1 < Len(results) THEN idx + 1 ELSE 0
    /\ UNCHANGED << inputs, selected_channels, channel_avg_views, all_video_ids,
                    details_responses, detail_items, locals, rendered >>

\* lines 478-495
Render ==
    /\ pc = "render"
    /\ search_info' = NoInfo
    /\ IF results = << >>
       THEN /\ messages' = Append(messages, "No videos match the criteria.")
            /\ UNCHANGED rendered
       ELSE /\ rendered' = [j \in 1..Len(results) |-> results[j].video_id]
            /\ UNCHANGED messages
    /\ pc' = "done"
    /\ UNCHANGED << inputs, selected_channels, channel_avg_views, all_video_ids,
                    details_responses, detail_items, results, locals, idx, requests >>

Next ==
    \/ Submit
    \/ FetchChannelStats
    \/ SearchChannel
    \/ CheckVideoIds
    \/ FetchDetails
    \/ GatherDetails
    \/ ProcessNextItem
    \/ SortAndTruncate
    \/ FetchComments
    \/ Render

Spec == Init /\ [][Next]_vars

----------------------------------------------------------------------------
(* What the claims speak of, stated on the fetched videos themselves.      *)

Range(seq) == { seq[j] : j \in 1..Len(seq) }

ResultIds == { results[j].video_id : j \in 1..Len(results) }

ItemOf(video_id) == CHOOSE item \in Range(detail_items) : item.id = video_id

Stat(item, key) == IF key \in DOMAIN item.statistics THEN item.statistics[key] ELSE 0

ChannelOf(item) ==
    IF "channelId" \in DOMAIN item.snippet THEN item.snippet.channelId ELSE ""

\* the channel's average views are known and positive
HasAverage(item) ==
    /\ ChannelOf(item) \in DOMAIN channel_avg_views
    /\ channel_avg_views[ChannelOf(item)][1] > 0

\* views * (1 + rate / 100) with rate = (likes + comments) / views * 100 is
\* views + likes + comments when views > 0, and 0 when views = 0
AdjustedViews(item) ==
    IF Stat(item, "viewCount") > 0
    THEN Stat(item, "viewCount") + Stat(item, "likeCount") + Stat(item, "commentCount")
    ELSE 0

\* the outlier multiplier of the item compared with a rational m, with the
\* division by the channel average a / b multiplied out
MultiplierAbove(item, m) ==
    /\ HasAverage(item)
    /\ LET avg == channel_avg_views[ChannelOf(item)]
       IN  AdjustedViews(item) * avg[2] * m[2] > m[1] * avg[1]

MultiplierEquals(item, m) ==
    /\ HasAverage(item)
    /\ LET avg == channel_avg_views[ChannelOf(item)]
       IN  AdjustedViews(item) * avg[2] * m[2] = m[1] * avg[1]

DurationString(item) ==
    IF "duration" \in DOMAIN item.contentDetails
    THEN item.contentDetails.duration ELSE PT0S

Seconds(item) == parse_duration(DurationString(item))

PassesKeyword(item) == KeywordMatches(Lower(keyword), item.snippet)

PassesOutlier(item) == MultiplierAbove(item, min_outlier_multiplier)

PassesDuration(item) ==
    CASE video_type = "Short (< 3 mins)" -> Seconds(item) < 180
      [] video_type = "Long (>= 3 mins)" -> Seconds(item) >= 180
      [] OTHER                           -> TRUE

Qualifies(item) ==
    PassesKeyword(item) /\ PassesOutlier(item) /\ PassesDuration(item)

Qualifying == { j \in 1..Len(detail_items) : Qualifies(detail_items[j]) }

\* the loop of line 388 has run over every detail item and line 455 has not
\* cut the list yet
Accumulated == pc = "sort"

\* line 455 has run
Collected == pc \in { "comments", "render" } \/ (pc = "done" /\ detail_items # << >>)

----------------------------------------------------------------------------
(* C1: the collected result list never holds more than the cap, and holds  *)
(* fewer only when the fetched videos are exhausted: once the list is cut  *)
(* its length is min(cap, number of fetched videos that pass the keyword,  *)
(* outlier and duration filters).                                          *)
C1_ResultLength ==
    Collected =>
        /\ Len(results) <= Cap
        /\ Len(results) = Min(Cap, Cardinality(Qualifying))

\* a run that drew ten cards out of more than ten qualifying videos
C1_Witness ==
    /\ pc = "done"
    /\ Len(rendered) = Cap
    /\ Len(results) = Cap
    /\ Cardinality(Qualifying) > Cap

(* C2: the duration filter is a hard cutoff at 180 seconds with the        *)
(* boundary excluded from the short side: among the videos that pass the   *)
(* keyword and outlier filters, "Short" keeps exactly those below 180,     *)
(* "Long" keeps exactly those at or above 180, "All" keeps every one.      *)
C2_DurationCutoff ==
    Accumulated =>
        \A j \in 1..Len(detail_items) :
            LET item == detail_items[j]
                kept == item.id \in ResultIds
            IN  (PassesKeyword(item) /\ PassesOutlier(item)) =>
                    /\ video_type = "Short (< 3 mins)" => (kept <=> Seconds(item) < 180)
                    /\ video_type = "Long (>= 3 mins)" => (kept <=> Seconds(item) >= 180)
                    /\ video_type = "All" => kept

\* under "Short", a video of exactly 180 seconds was dropped and one of 179
\* seconds was kept
C2_Witness ==
    /\ Accumulated
    /\ video_type = "Short (< 3 mins)"
    /\ \E item \in Range(detail_items) :
           /\ PassesKeyword(item) /\ PassesOutlier(item)
           /\ Seconds(item) = 180
           /\ item.id \notin ResultIds
    /\ \E item \in Range(detail_items) :
           /\ Seconds(item) = 179
           /\ item.id \in ResultIds

(* C3: engagementRate is (likeCount + commentCount) / viewCount * 100 when  *)
(* viewCount > 0 (views 1000, likes 50, comments 10 give 6) and 0 when     *)
(* viewCount = 0 whatever the likes and comments, a missing like or        *)
(* comment count counting as 0; the value stored in a record is this       *)
(* value, and stays it through sorting, cutting and the comment lookup.    *)
RateIsOf(rate, views, likes, comments) ==
    /\ rate[2] > 0
    /\ views > 0 => rate[1] * views = (likes + comments) * 100 * rate[2]
    /\ views = 0 => rate = << 0, 1 >>
    /\ (views = 1000 /\ likes = 50 /\ comments = 10) => rate = << 6, 1 >>

\* the iteration that last ran got past the keyword check of line 403, so
\* the locals of lines 408-423 are those of its item
LocalsAreOf(item) ==
    /\ "video_id" \in DOMAIN locals
    /\ locals.video_id = item.id
    /\ PassesKeyword(item)

C3_EngagementRate ==
    /\ \A j \in 1..Len(results) :
           LET item == ItemOf(results[j].video_id)
           IN  RateIsOf(results[j].engagement_rate, Stat(item, "viewCount"),
                        Stat(item, "likeCount"), Stat(item, "commentCount"))
    /\ \A item \in Range(detail_items) :
           LocalsAreOf(item) =>
               RateIsOf(locals.engagement_rate, Stat(item, "viewCount"),
                        Stat(item, "likeCount"), Stat(item, "commentCount"))

\* at the end of a run a record of the scenario (1000 views, 50 likes, 10
\* comments) holds 6 after its comments were attached, and the last video
\* examined had no view, 50 likes and 10 comments, and got the rate 0
C3_Witness ==
    /\ pc = "done"
    /\ \E j \in 1..Len(results) :
           /\ results[j].view_count = 1000
           /\ Stat(ItemOf(results[j].video_id), "likeCount") = 50
           /\ Stat(ItemOf(results[j].video_id), "commentCount") = 10
           /\ results[j].engagement_rate = << 6, 1 >>
           /\ "top_comments" \in DOMAIN results[j]
    /\ \E item \in Range(detail_items) :
           /\ LocalsAreOf(item)
           /\ Stat(item, "viewCount") = 0
           /\ Stat(item, "likeCount") = 50
           /\ Stat(item, "commentCount") = 10
           /\ locals.engagement_rate = << 0, 1 >>

(* C4: a malformed ISO-8601 duration parses to 0 seconds and raises no     *)
(* error: a video with a malformed duration that passes the keyword and    *)
(* outlier filters is kept with duration 0 under "Short" and under "All",  *)
(* and the videos after it are still examined.                             *)
Malformed(item) == ~IsoWellFormed(DurationString(item))

C4_MalformedDuration ==
    /\ \A j \in 1..Len(detail_items) :
           LET item == detail_items[j]
           IN  (Accumulated /\ Malformed(item) /\ PassesKeyword(item)
                            /\ PassesOutlier(item)) =>
                   /\ video_type # "Long (>= 3 mins)" =>
                          \E r \in Range(results) :
                              r.video_id = item.id /\ r.duration = 0
                   /\ video_type = "Long (>= 3 mins)" => item.id \notin ResultIds
                   /\ \A k \in (j + 1)..Len(detail_items) :
                          Qualifies(detail_items[k]) =>
                              detail_items[k].id \in ResultIds
    /\ \A item \in Range(detail_items) :
           (LocalsAreOf(item) /\ Malformed(item) /\ PassesOutlier(item)) =>
               locals.duration_seconds = 0
    /\ detail_items # << >> => "An error occurred" \notin Range(messages)

\* under "Short" a video with a malformed duration was kept with duration
\* 0, and a video examined after it was kept too
C4_Witness ==
    /\ pc = "sort"
    /\ video_type = "Short (< 3 mins)"
    /\ \E a, b \in 1..Len(results) :
           /\ a < b
           /\ Malformed(ItemOf(results[a].video_id))
           /\ results[a].duration = 0
           /\ ~Malformed(ItemOf(results[b].video_id))

----------------------------------------------------------------------------
(* The requests of a run, by API.                                          *)

RequestsTo(api) == SelectSeq(requests, LAMBDA r : r.api = api)

RECURSIVE ConcatIds(_)
ConcatIds(reqs) ==
    IF reqs = << >> THEN << >> ELSE Head(reqs).id \o ConcatIds(Tail(reqs))

\* the loop of line 375 has ended without a failure
DetailsDone ==
    \/ pc \in { "gather", "process", "sort", "comments", "render" }
    \/ pc = "done" /\ detail_items # << >>

\* how many of the items of the first m detail responses qualify
QualifyingIn(m) ==
    LET items == ExtendAll(SubSeq(details_responses, 1, m))
    IN  Cardinality({ j \in 1..Len(items) : Qualifies(items[j]) })

(* C5, as claimed: collection stops early once the cap is reached; the     *)
(* accumulator never grows past the cap, and no batch-detail request is    *)
(* issued for the chunks after the one in which the cap was reached.       *)
C5_StopsAtCap ==
    /\ Len(results) <= Cap
    /\ \A m \in 2..Len(RequestsTo("videos")) : QualifyingIn(m - 1) < Cap

(* C5, amended: collection does not stop at the cap.  Every selected       *)
(* channel is searched and every chunk of the found ids is requested       *)
(* (ceil(n / 50) requests) before any video is filtered; the loop then     *)
(* examines every detail item, so the accumulator holds every qualifying   *)
(* video, and no search or detail request follows the filtering.           *)
C5_NoEarlyStop ==
    /\ DetailsDone =>
           /\ Len(RequestsTo("search")) = Len(selected_channels)
           /\ Len(RequestsTo("videos")) = (Len(all_video_ids) + 49) \div 50
    /\ Accumulated => Len(results) = Cardinality(Qualifying)
    /\ results # << >> => DetailsDone

\* the first chunk alone held the cap, the second chunk was requested all
\* the same, and the accumulator holds more than the cap
C5_Witness ==
    /\ Accumulated
    /\ Len(RequestsTo("videos")) = 2
    /\ QualifyingIn(1) >= Cap
    /\ Len(results) > Cap

(* C6: when a channel-statistics, search or batch video-detail request     *)
(* fails, the run issues no later request, renders no result list and      *)
(* ends showing a single error message, that of the except branch.         *)
C6_FailureStops ==
    \A i \in 1..Len(requests) :
        (requests[i].api \in { "channels", "search", "videos" } /\ ~requests[i].ok) =>
            /\ i = Len(requests)
            /\ pc = "done"
            /\ results = << >>
            /\ rendered = << >>
            /\ messages = << "An error occurred" >>
            /\ search_info.kind # "error"

\* a detail request failed after the statistics and the searches succeeded
C6_Witness ==
    /\ pc = "done"
    /\ Len(requests) >= 3
    /\ requests[Len(requests)].api = "videos"
    /\ ~requests[Len(requests)].ok
    /\ all_video_ids # << >>
    /\ messages = << "An error occurred" >>

\* every selected channel was searched and none returned an item
AllSearchesEmpty ==
    /\ pc = "done"
    /\ selected_channels # << >>
    /\ Len(RequestsTo("search")) = Len(selected_channels)
    /\ \A i \in 1..Len(requests) : requests[i].ok
    /\ all_video_ids = << >>

(* C7, as claimed: when the search returns no item for every selected      *)
(* channel the run stops without a detail or comment request, and the      *)
(* outcome is an empty result, not an error.                               *)
C7_EmptyNotError ==
    AllSearchesEmpty =>
        /\ RequestsTo("videos") = << >>
        /\ RequestsTo("commentThreads") = << >>
        /\ search_info.kind # "error"
        /\ messages = << >>

(* C7, amended: when the search returns no item for every selected channel *)
(* the run stops without a detail or comment request, takes no except      *)
(* branch and renders no result list; what it shows is the error message   *)
(* "No videos found across the selected channels.".                        *)
C7_NoVideosFound ==
    AllSearchesEmpty =>
        /\ RequestsTo("videos") = << >>
        /\ RequestsTo("commentThreads") = << >>
        /\ detail_items = << >>
        /\ results = << >>
        /\ rendered = << >>
        /\ messages = << >>
        /\ search_info = [kind |-> "error",
                          text |-> "No videos found across the selected channels."]

\* two channels were searched and both returned nothing
C7_Witness ==
    /\ AllSearchesEmpty
    /\ Len(selected_channels) = 2
    /\ Len(requests) = 4

(* C9: every videos.list request carries at least 1 and at most 50 ids,    *)
(* the batches taken in order concatenate to the collected id list (a      *)
(* prefix of it while the loop runs), and the loop issues ceil(n / 50)     *)
(* requests.                                                               *)
C9_Batches ==
    LET batches == RequestsTo("videos")
        asked   == ConcatIds(batches)
    IN  /\ \A b \in 1..Len(batches) :
               Len(batches[b].id) >= 1 /\ Len(batches[b].id) <= 50
        /\ Len(asked) <= Len(all_video_ids)
        /\ asked = SubSeq(all_video_ids, 1, Len(asked))
        /\ DetailsDone =>
               /\ asked = all_video_ids
               /\ Len(batches) = (Len(all_video_ids) + 49) \div 50

\* 51 ids were asked for in a batch of 50 and a batch of 1
C9_Witness ==
    /\ pc = "gather"
    /\ Len(all_video_ids) = 51
    /\ Len(RequestsTo("videos")) = 2
    /\ Len(RequestsTo("videos")[1].id) = 50
    /\ Len(RequestsTo("videos")[2].id) = 1

(* C10: a video is in the results only if its outlier multiplier,          *)
(* view_count * (1 + engagement_rate / 100) / channel average views, is    *)
(* strictly greater than the minimum; when the channel's average is 0 or   *)
(* the channel is not among the selected ones the multiplier is 0 and the  *)
(* video is excluded, and no quotient has a zero denominator.              *)
MultiplierIsOf(multiplier, item) ==
    /\ multiplier[2] > 0
    /\ ~HasAverage(item) => multiplier = << 0, 1 >>
    /\ HasAverage(item) =>
           LET avg == channel_avg_views[ChannelOf(item)]
           IN  multiplier[1] * avg[1] = AdjustedViews(item) * avg[2] * multiplier[2]

C10_OutlierCut ==
    /\ \A j \in 1..Len(results) :
           LET item == ItemOf(results[j].video_id)
           IN  /\ HasAverage(item)
               /\ MultiplierAbove(item, min_outlier_multiplier)
               /\ MultiplierIsOf(results[j].outlier_multiplier, item)
               /\ RLt(min_outlier_multiplier, results[j].outlier_multiplier)
    /\ \A item \in Range(detail_items) :
           LocalsAreOf(item) => MultiplierIsOf(locals.multiplier, item)
    /\ \A c \in DOMAIN channel_avg_views : channel_avg_views[c][2] > 0

\* with the minimum at 2.0, a video whose multiplier is exactly 2 and a
\* video of a channel without average were dropped while others were kept
C10_Witness ==
    /\ Accumulated
    /\ min_outlier_multiplier = << 2, 1 >>
    /\ results # << >>
    /\ \E item \in Range(detail_items) :
           /\ PassesKeyword(item) /\ PassesDuration(item)
           /\ MultiplierEquals(item, min_outlier_multiplier)
           /\ item.id \notin ResultIds
    /\ \E item \in Range(detail_items) :
           /\ PassesKeyword(item) /\ PassesDuration(item)
           /\ ~HasAverage(item)
           /\ Stat(item, "viewCount") > 0
           /\ item.id \notin ResultIds

(* C11: sorting happens before the cut to the cap: the returned list is in  *)
(* non-increasing order of the chosen sort key (view count under "View     *)
(* Count", outlier multiplier otherwise), and every qualifying video left  *)
(* out has a key less than or equal to the key of every returned video.    *)

\* the key of a fetched video is at most the key stored in a record, with
\* the division by the channel average a / b multiplied out
KeyAtMost(item, record) ==
    IF sort_option = "View Count"
    THEN Stat(item, "viewCount") <= record.view_count
    ELSE LET avg == channel_avg_views[ChannelOf(item)]
             m   == record.outlier_multiplier
         IN  AdjustedViews(item) * avg[2] * m[2] <= m[1] * avg[1]

C11_SortedBeforeCut ==
    Collected =>
        /\ \A j \in 1..(Len(results) - 1) :
               KeyAtMost(ItemOf(results[j + 1].video_id), results[j])
        /\ \A j \in Qualifying :
               detail_items[j].id \notin ResultIds =>
                   \A r \in 1..Len(results) : KeyAtMost(detail_items[j], results[r])

\* ten cards were drawn out of more than ten qualifying videos, a video
\* among the first ten qualifying ones was left out, and the cards are not
\* in the order the videos were fetched in
C11_Witness ==
    /\ pc = "done"
    /\ Len(rendered) = Cap
    /\ \E j \in Qualifying :
           /\ detail_items[j].id \notin ResultIds
           /\ Cardinality({ k \in Qualifying : k < j }) < Cap
    /\ \E a, b \in 1..Len(rendered) : a < b /\ rendered[a] > rendered[b]

====
